---- MODULE Spec2Model ----
(***************************************************************************)
(* Arithmetic of the cubic extension field Fp6 = Fp2[v] / (v^3 - u - 1)    *)
(* of src/src/fp6.rs.                                                      *)
(*                                                                         *)
(* The base field Fp (crate::fp) and the quadratic extension               *)
(* Fp2 = Fp[u] / (u^2 + 1) (crate::fp2) are collaborators whose code is    *)
(* not part of src/.  They are modelled from their contracts, over a       *)
(* scaled-down characteristic P that keeps the three arithmetic facts the  *)
(* tower relies on:                                                        *)
(*    P = 3 (mod 4)    u^2 = -1 is irreducible over Fp,                    *)
(*    P = 1 (mod 3)    (P - 1) / 3 is an integer and u + 1 is not a cube,  *)
(*    P^6 = 9 (mod 16) the residue class Fp6::sqrt is specialised to.      *)
(* Field elements are canonical residues 0 .. P-1 (the Montgomery form of  *)
(* from_raw_unchecked is a representation detail of crate::fp).  The       *)
(* constants that fp6.rs embeds as literals are functions of the           *)
(* characteristic; the model embeds, as literals, the values the same      *)
(* expressions take at P.                                                  *)
(***************************************************************************)
EXTENDS Integers, Sequences, FiniteSets, TLC

(***************************************************************************)
(* crate::fp -- the base prime field.                                      *)
(***************************************************************************)
P == 19

Fp == 0 .. (P - 1)

Fp_add(x, y) == (x + y) % P
Fp_sub(x, y) == (x + P - y) % P
Fp_neg(x) == (P - x) % P
Fp_mul(x, y) == (x * y) % P

\* Fp::sum_of_products: a1*b1 + ... + a6*b6, reduced once.
sum_of_products(as, bs) ==
    (as[1] * bs[1] + as[2] * bs[2] + as[3] * bs[3]
     + as[4] * bs[4] + as[5] * bs[5] + as[6] * bs[6]) % P

RECURSIVE Fp_pow(_, _)
Fp_pow(x, e) ==
    IF e = 0 THEN 1
    ELSE LET h == Fp_pow(x, e \div 2)
             s == Fp_mul(h, h)
         IN  IF e % 2 = 1 THEN Fp_mul(s, x) ELSE s

\* Fp::lexicographically_largest: x is strictly larger than its negation,
\* that is, x > (p - 1) / 2.
Fp_lexicographically_largest(x) == x > (P - 1) \div 2

\* Fp::invert: x^(p-2), valid unless x is zero.
Fp_invert(x) == [is_some |-> x # 0, value |-> Fp_pow(x, P - 2)]

(***************************************************************************)
(* crate::fp2 -- the quadratic extension, c0 + c1 u with u^2 = -1.         *)
(***************************************************************************)
Fp2 == [c0 : Fp, c1 : Fp]

Fp2_zero == [c0 |-> 0, c1 |-> 0]
Fp2_one == [c0 |-> 1, c1 |-> 0]

Fp2_add(x, y) == [c0 |-> Fp_add(x.c0, y.c0), c1 |-> Fp_add(x.c1, y.c1)]
Fp2_sub(x, y) == [c0 |-> Fp_sub(x.c0, y.c0), c1 |-> Fp_sub(x.c1, y.c1)]
Fp2_neg(x) == [c0 |-> Fp_neg(x.c0), c1 |-> Fp_neg(x.c1)]

Fp2_mul(x, y) ==
    [c0 |-> Fp_sub(Fp_mul(x.c0, y.c0), Fp_mul(x.c1, y.c1)),
     c1 |-> Fp_add(Fp_mul(x.c0, y.c1), Fp_mul(x.c1, y.c0))]

Fp2_square(x) == Fp2_mul(x, x)

\* Multiplication by the nonresidue u + 1: (c0 - c1) + (c0 + c1) u.
Fp2_mul_by_nonresidue(x) ==
    [c0 |-> Fp_sub(x.c0, x.c1), c1 |-> Fp_add(x.c0, x.c1)]

\* x^p in Fp2 is the conjugate.
Fp2_frobenius_map(x) == [c0 |-> x.c0, c1 |-> Fp_neg(x.c1)]

Fp2_is_zero(x) == x.c0 = 0 /\ x.c1 = 0

\* Fp2::lexicographically_largest: decided by c1, and by c0 when c1 is zero.
Fp2_lexicographically_largest(x) ==
    \/ Fp_lexicographically_largest(x.c1)
    \/ x.c1 = 0 /\ Fp_lexicographically_largest(x.c0)

\* Fp2::invert: conjugate over the norm c0^2 + c1^2; the CtOption of the
\* base-field inversion of the norm propagates.
Fp2_invert(x) ==
    LET t == Fp_invert(Fp_add(Fp_mul(x.c0, x.c0), Fp_mul(x.c1, x.c1)))
    IN  [is_some |-> t.is_some,
         value |-> [c0 |-> Fp_mul(x.c0, t.value),
                    c1 |-> Fp_mul(x.c1, Fp_neg(t.value))]]

(***************************************************************************)
(* src/src/fp6.rs -- the cubic extension, c0 + c1 v + c2 v^2.              *)
(***************************************************************************)
Fp6 == [c0 : Fp2, c1 : Fp2, c2 : Fp2]

zero == [c0 |-> Fp2_zero, c1 |-> Fp2_zero, c2 |-> Fp2_zero]
one == [c0 |-> Fp2_one, c1 |-> Fp2_zero, c2 |-> Fp2_zero]

ct_eq(x, y) == x.c0 = y.c0 /\ x.c1 = y.c1 /\ x.c2 = y.c2

\* conditional_select with the two values exchanged: a when choice is set.
conditional_select_exchanged(x, y, choice) ==
    [c0 |-> IF choice THEN x.c0 ELSE y.c0,
     c1 |-> IF choice THEN x.c1 ELSE y.c1,
     c2 |-> IF choice THEN x.c2 ELSE y.c2]

\* conditional_select(a, b, choice): b when choice is set, a otherwise.
conditional_select(x, y, choice) ==
    [c0 |-> IF choice THEN y.c0 ELSE x.c0,
     c1 |-> IF choice THEN y.c1 ELSE x.c1,
     c2 |-> IF choice THEN y.c2 ELSE x.c2]

is_zero(x) == Fp2_is_zero(x.c0) /\ Fp2_is_zero(x.c1) /\ Fp2_is_zero(x.c2)

\* Addition that takes c1 of the right-hand operand into c2.
add_c2_from_c1(x, y) ==
    [c0 |-> Fp2_add(x.c0, y.c0), c1 |-> Fp2_add(x.c1, y.c1), c2 |-> Fp2_add(x.c2, y.c1)]

add(x, y) ==
    [c0 |-> Fp2_add(x.c0, y.c0), c1 |-> Fp2_add(x.c1, y.c1), c2 |-> Fp2_add(x.c2, y.c2)]

sub(x, y) ==
    [c0 |-> Fp2_sub(x.c0, y.c0), c1 |-> Fp2_sub(x.c1, y.c1), c2 |-> Fp2_sub(x.c2, y.c2)]

neg(x) == [c0 |-> Fp2_neg(x.c0), c1 |-> Fp2_neg(x.c1), c2 |-> Fp2_neg(x.c2)]

mul_by_1(x, c1) ==
    LET b_b == Fp2_mul(x.c1, c1)
        t1 == Fp2_mul_by_nonresidue(Fp2_sub(Fp2_mul(Fp2_add(x.c1, x.c2), c1), b_b))
        t2 == Fp2_sub(Fp2_mul(Fp2_add(x.c0, x.c1), c1), b_b)
    IN  [c0 |-> t1, c1 |-> t2, c2 |-> b_b]

\* mul_by_01 with b_b subtracted from t3 where it is added.
mul_by_01_t3_minus_b_b(x, c0, c1) ==
    LET a_a == Fp2_mul(x.c0, c0)
        b_b == Fp2_mul(x.c1, c1)
        t1 == Fp2_add(
                Fp2_mul_by_nonresidue(Fp2_sub(Fp2_mul(Fp2_add(x.c1, x.c2), c1), b_b)),
                a_a)
        t2 == Fp2_sub(Fp2_sub(Fp2_mul(Fp2_add(c0, c1), Fp2_add(x.c0, x.c1)), a_a), b_b)
        t3 == Fp2_sub(Fp2_sub(Fp2_mul(Fp2_add(x.c0, x.c2), c0), a_a), b_b)
    IN  [c0 |-> t1, c1 |-> t2, c2 |-> t3]

mul_by_01(x, c0, c1) ==
    LET a_a == Fp2_mul(x.c0, c0)
        b_b == Fp2_mul(x.c1, c1)
        t1 == Fp2_add(
                Fp2_mul_by_nonresidue(Fp2_sub(Fp2_mul(Fp2_add(x.c1, x.c2), c1), b_b)),
                a_a)
        t2 == Fp2_sub(Fp2_sub(Fp2_mul(Fp2_add(c0, c1), Fp2_add(x.c0, x.c1)), a_a), b_b)
        t3 == Fp2_add(Fp2_sub(Fp2_mul(Fp2_add(x.c0, x.c2), c0), a_a), b_b)
    IN  [c0 |-> t1, c1 |-> t2, c2 |-> t3]

\* mul_by_nonresidue that rotates the components and leaves c2 as it is.
mul_by_nonresidue_rotation_only(x) ==
    [c0 |-> x.c2, c1 |-> x.c0, c2 |-> x.c1]

mul_by_nonresidue(x) ==
    [c0 |-> Fp2_mul_by_nonresidue(x.c2), c1 |-> x.c0, c2 |-> x.c1]

\* mul_interleaved with the two operands of the last product of c1.c0
\* exchanged: b20_p_b21 where b20_m_b21 belongs, and the reverse.
mul_interleaved_c10_swapped(a, b) ==
    LET b10_p_b11 == Fp_add(b.c1.c0, b.c1.c1)
        b10_m_b11 == Fp_sub(b.c1.c0, b.c1.c1)
        b20_p_b21 == Fp_add(b.c2.c0, b.c2.c1)
        b20_m_b21 == Fp_sub(b.c2.c0, b.c2.c1)
        an == <<a.c0.c0, Fp_neg(a.c0.c1), a.c1.c0, Fp_neg(a.c1.c1), a.c2.c0, Fp_neg(a.c2.c1)>>
        ap == <<a.c0.c0, a.c0.c1, a.c1.c0, a.c1.c1, a.c2.c0, a.c2.c1>>
    IN  [c0 |->
           [c0 |-> sum_of_products(an,
                     <<b.c0.c0, b.c0.c1, b20_m_b21, b20_p_b21, b10_m_b11, b10_p_b11>>),
            c1 |-> sum_of_products(ap,
                     <<b.c0.c1, b.c0.c0, b20_p_b21, b20_m_b21, b10_p_b11, b10_m_b11>>)],
         c1 |->
           [c0 |-> sum_of_products(an,
                     <<b.c1.c0, b.c1.c1, b.c0.c0, b.c0.c1, b20_p_b21, b20_m_b21>>),
            c1 |-> sum_of_products(ap,
                     <<b.c1.c1, b.c1.c0, b.c0.c1, b.c0.c0, b20_p_b21, b20_m_b21>>)],
         c2 |->
           [c0 |-> sum_of_products(an,
                     <<b.c2.c0, b.c2.c1, b.c1.c0, b.c1.c1, b.c0.c0, b.c0.c1>>),
            c1 |-> sum_of_products(ap,
                     <<b.c2.c1, b.c2.c0, b.c1.c1, b.c1.c0, b.c0.c1, b.c0.c0>>)]]

\* Fp6::mul_interleaved: six sums of products over the base field.
mul_interleaved(a, b) ==
    LET b10_p_b11 == Fp_add(b.c1.c0, b.c1.c1)
        b10_m_b11 == Fp_sub(b.c1.c0, b.c1.c1)
        b20_p_b21 == Fp_add(b.c2.c0, b.c2.c1)
        b20_m_b21 == Fp_sub(b.c2.c0, b.c2.c1)
        an == <<a.c0.c0, Fp_neg(a.c0.c1), a.c1.c0, Fp_neg(a.c1.c1), a.c2.c0, Fp_neg(a.c2.c1)>>
        ap == <<a.c0.c0, a.c0.c1, a.c1.c0, a.c1.c1, a.c2.c0, a.c2.c1>>
    IN  [c0 |->
           [c0 |-> sum_of_products(an,
                     <<b.c0.c0, b.c0.c1, b20_m_b21, b20_p_b21, b10_m_b11, b10_p_b11>>),
            c1 |-> sum_of_products(ap,
                     <<b.c0.c1, b.c0.c0, b20_p_b21, b20_m_b21, b10_p_b11, b10_m_b11>>)],
         c1 |->
           [c0 |-> sum_of_products(an,
                     <<b.c1.c0, b.c1.c1, b.c0.c0, b.c0.c1, b20_m_b21, b20_p_b21>>),
            c1 |-> sum_of_products(ap,
                     <<b.c1.c1, b.c1.c0, b.c0.c1, b.c0.c0, b20_p_b21, b20_m_b21>>)],
         c2 |->
           [c0 |-> sum_of_products(an,
                     <<b.c2.c0, b.c2.c1, b.c1.c0, b.c1.c1, b.c0.c0, b.c0.c1>>),
            c1 |-> sum_of_products(ap,
                     <<b.c2.c1, b.c2.c0, b.c1.c1, b.c1.c0, b.c0.c1, b.c0.c0>>)]]

\* impl Mul<&Fp6> for &Fp6
mul(x, y) == mul_interleaved(x, y)

\* square with the sum-square taken of c0 + c1 + c2 instead of c0 - c1 + c2.
square_plus_c1(x) ==
    LET s0 == Fp2_square(x.c0)
        ab == Fp2_mul(x.c0, x.c1)
        s1 == Fp2_add(ab, ab)
        s2 == Fp2_square(Fp2_add(Fp2_add(x.c0, x.c1), x.c2))
        bc == Fp2_mul(x.c1, x.c2)
        s3 == Fp2_add(bc, bc)
        s4 == Fp2_square(x.c2)
    IN  [c0 |-> Fp2_add(Fp2_mul_by_nonresidue(s3), s0),
         c1 |-> Fp2_add(Fp2_mul_by_nonresidue(s4), s1),
         c2 |-> Fp2_sub(Fp2_sub(Fp2_add(Fp2_add(s1, s2), s3), s0), s4)]

square(x) ==
    LET s0 == Fp2_square(x.c0)
        ab == Fp2_mul(x.c0, x.c1)
        s1 == Fp2_add(ab, ab)
        s2 == Fp2_square(Fp2_add(Fp2_sub(x.c0, x.c1), x.c2))
        bc == Fp2_mul(x.c1, x.c2)
        s3 == Fp2_add(bc, bc)
        s4 == Fp2_square(x.c2)
    IN  [c0 |-> Fp2_add(Fp2_mul_by_nonresidue(s3), s0),
         c1 |-> Fp2_add(Fp2_mul_by_nonresidue(s4), s1),
         c2 |-> Fp2_sub(Fp2_sub(Fp2_add(Fp2_add(s1, s2), s3), s0), s4)]

\* CtOption::map / and_then hand the closure the payload when the option is
\* valid and T::default() otherwise (subtle), so the payload is always defined.
Fp2_unwrap_or_default(o) == IF o.is_some THEN o.value ELSE Fp2_zero

\* invert with the nonresidue multiplication missing from the norm.
invert_norm_without_nonresidue(x) ==
    LET c0 == Fp2_sub(Fp2_square(x.c0), Fp2_mul_by_nonresidue(Fp2_mul(x.c1, x.c2)))
        c1 == Fp2_sub(Fp2_mul_by_nonresidue(Fp2_square(x.c2)), Fp2_mul(x.c0, x.c1))
        c2 == Fp2_sub(Fp2_square(x.c1), Fp2_mul(x.c0, x.c2))
        tmp == Fp2_add(Fp2_add(Fp2_mul(x.c1, c2), Fp2_mul(x.c2, c1)), Fp2_mul(x.c0, c0))
        ti == Fp2_invert(tmp)
        t == Fp2_unwrap_or_default(ti)
    IN  [is_some |-> ti.is_some,
         value |-> [c0 |-> Fp2_mul(t, c0), c1 |-> Fp2_mul(t, c1), c2 |-> Fp2_mul(t, c2)]]

\* invert whose flag comes from inverting c0 * c0' alone, without the terms
\* of c1 and c2 of the norm.
invert_flag_from_c0(x) ==
    LET c0 == Fp2_sub(Fp2_square(x.c0), Fp2_mul_by_nonresidue(Fp2_mul(x.c1, x.c2)))
        c1 == Fp2_sub(Fp2_mul_by_nonresidue(Fp2_square(x.c2)), Fp2_mul(x.c0, x.c1))
        c2 == Fp2_sub(Fp2_square(x.c1), Fp2_mul(x.c0, x.c2))
        tmp == Fp2_add(
                 Fp2_mul_by_nonresidue(Fp2_add(Fp2_mul(x.c1, c2), Fp2_mul(x.c2, c1))),
                 Fp2_mul(x.c0, c0))
        ti == Fp2_invert(Fp2_mul(x.c0, c0))
        t == Fp2_unwrap_or_default(Fp2_invert(tmp))
    IN  [is_some |-> ti.is_some,
         value |-> [c0 |-> Fp2_mul(t, c0), c1 |-> Fp2_mul(t, c1), c2 |-> Fp2_mul(t, c2)]]

\* invert whose last component is scaled from c1 instead of c2.
invert_c2_from_c1(x) ==
    LET c0 == Fp2_sub(Fp2_square(x.c0), Fp2_mul_by_nonresidue(Fp2_mul(x.c1, x.c2)))
        c1 == Fp2_sub(Fp2_mul_by_nonresidue(Fp2_square(x.c2)), Fp2_mul(x.c0, x.c1))
        c2 == Fp2_sub(Fp2_square(x.c1), Fp2_mul(x.c0, x.c2))
        tmp == Fp2_add(
                 Fp2_mul_by_nonresidue(Fp2_add(Fp2_mul(x.c1, c2), Fp2_mul(x.c2, c1))),
                 Fp2_mul(x.c0, c0))
        ti == Fp2_invert(tmp)
        t == Fp2_unwrap_or_default(ti)
    IN  [is_some |-> ti.is_some,
         value |-> [c0 |-> Fp2_mul(t, c0), c1 |-> Fp2_mul(t, c1), c2 |-> Fp2_mul(t, c1)]]

invert(x) ==
    LET c0 == Fp2_sub(Fp2_square(x.c0), Fp2_mul_by_nonresidue(Fp2_mul(x.c1, x.c2)))
        c1 == Fp2_sub(Fp2_mul_by_nonresidue(Fp2_square(x.c2)), Fp2_mul(x.c0, x.c1))
        c2 == Fp2_sub(Fp2_square(x.c1), Fp2_mul(x.c0, x.c2))
        tmp == Fp2_add(
                 Fp2_mul_by_nonresidue(Fp2_add(Fp2_mul(x.c1, c2), Fp2_mul(x.c2, c1))),
                 Fp2_mul(x.c0, c0))
        ti == Fp2_invert(tmp)
        t == Fp2_unwrap_or_default(ti)
    IN  [is_some |-> ti.is_some,
         value |-> [c0 |-> Fp2_mul(t, c0), c1 |-> Fp2_mul(t, c1), c2 |-> Fp2_mul(t, c2)]]

\* The constant of c1 with a real part that does not belong there.
FROBENIUS_COEFF_C1_with_real_part == [c0 |-> 1, c1 |-> 11]

\* lexicographically_largest that falls through to c1 and c0 without
\* testing that c2 is zero.
lexicographically_largest_c2_not_tested(x) ==
    \/ Fp2_lexicographically_largest(x.c2)
    \/ Fp2_lexicographically_largest(x.c1)
    \/ Fp2_is_zero(x.c1) /\ Fp2_lexicographically_largest(x.c0)

lexicographically_largest(x) ==
    \/ Fp2_lexicographically_largest(x.c2)
    \/ Fp2_is_zero(x.c2) /\ Fp2_lexicographically_largest(x.c1)
    \/ Fp2_is_zero(x.c2) /\ Fp2_is_zero(x.c1) /\ Fp2_lexicographically_largest(x.c0)

\* (u + 1)^((p - 1) / 3), the literal multiplied into c1 by frobenius_map.
FROBENIUS_COEFF_C1 == [c0 |-> 0, c1 |-> 11]

\* (u + 1)^((2p - 2) / 3), the literal multiplied into c2 by frobenius_map.
FROBENIUS_COEFF_C2 == [c0 |-> 12, c1 |-> 0]

\* frobenius_map with the two constants exchanged.
frobenius_map_coeffs_exchanged(x) ==
    LET c0 == Fp2_frobenius_map(x.c0)
        c1 == Fp2_frobenius_map(x.c1)
        c2 == Fp2_frobenius_map(x.c2)
    IN  [c0 |-> c0,
         c1 |-> Fp2_mul(c1, FROBENIUS_COEFF_C2),
         c2 |-> Fp2_mul(c2, FROBENIUS_COEFF_C1)]

frobenius_map(x) ==
    LET c0 == Fp2_frobenius_map(x.c0)
        c1 == Fp2_frobenius_map(x.c1)
        c2 == Fp2_frobenius_map(x.c2)
    IN  [c0 |-> c0,
         c1 |-> Fp2_mul(c1, FROBENIUS_COEFF_C1),
         c2 |-> Fp2_mul(c2, FROBENIUS_COEFF_C2)]

(***************************************************************************)
(* sqrt: the constants, and the part of the function that follows the      *)
(* exponentiation xp = self.pow_vartime(&Q_9_16).                          *)
(***************************************************************************)
\* (2 d1^2)^((p^6 - 9) / 16)
D1P == [c0 |-> [c0 |-> 3, c1 |-> 0], c1 |-> Fp2_zero, c2 |-> Fp2_zero]

\* (2 d2^2)^((p^6 - 9) / 16)
D2P == [c0 |-> Fp2_zero, c1 |-> Fp2_zero, c2 |-> [c0 |-> 9, c1 |-> 0]]

\* A u64 limb is the tuple of its eight bytes, least significant first.
RECURSIVE le_bytes(_, _)
le_bytes(x, n) ==
    IF n = 0 THEN << >>
    ELSE <<x % 256>> \o le_bytes(x \div 256, n - 1)

u64(x) == le_bytes(x, 8)

\* (e >> (k * 8)) & 255
LimbByte(e, k) == e[k + 1]

\* (p^6 - 9) / 16 as a slice of u64 limbs.
Q_9_16 == << u64(2940367) >>

\* sqrt whose flag reports the first candidate alone.
sqrt_finish_flag_of_first(x, xp) ==
    LET d1 == neg(one)
        d2 == [c0 |-> Fp2_zero, c1 |-> Fp2_one, c2 |-> Fp2_zero]
        z1 == mul(xp, D1P)
        z2 == mul(xp, D2P)
        z1d1 == mul(z1, d1)
        z2d2 == mul(z2, d2)
        hi1 == mul(mul(z1d1, z1d1), x)
        hi2 == mul(mul(z2d2, z2d2), x)
        i1 == add(hi1, hi1)
        i2 == add(hi2, hi2)
        a1 == mul(mul(z1d1, x), sub(i1, one))
        a2 == mul(mul(z2d2, x), sub(i2, one))
        c1 == ct_eq(x, mul(a1, a1))
        c2 == ct_eq(x, mul(a2, a2))
    IN  [is_some |-> c1, value |-> conditional_select(a1, a2, c2)]

sqrt_finish(x, xp) ==
    LET d1 == neg(one)
        d2 == [c0 |-> Fp2_zero, c1 |-> Fp2_one, c2 |-> Fp2_zero]
        z1 == mul(xp, D1P)
        z2 == mul(xp, D2P)
        z1d1 == mul(z1, d1)
        z2d2 == mul(z2, d2)
        hi1 == mul(mul(z1d1, z1d1), x)
        hi2 == mul(mul(z2d2, z2d2), x)
        i1 == add(hi1, hi1)
        i2 == add(hi2, hi2)
        a1 == mul(mul(z1d1, x), sub(i1, one))
        a2 == mul(mul(z2d2, x), sub(i2, one))
        c1 == ct_eq(x, mul(a1, a1))
        c2 == ct_eq(x, mul(a2, a2))
    IN  [is_some |-> c1 \/ c2, value |-> conditional_select(a1, a2, c2)]

(***************************************************************************)
(* Serialization.  An Fp element is FP_BYTES big-endian bytes (48 for the  *)
(* 381-bit characteristic), an Fp2 element is c0 then c1, an Fp6 element   *)
(* is three Fp2 windows: [u8; 96] and [u8; 288] at the real width.         *)
(***************************************************************************)
FP_BYTES == 2

FP2_BYTES == 2 * FP_BYTES

FP6_BYTES == 3 * FP2_BYTES

Byte == 0 .. 255

RECURSIVE be_value(_)
be_value(bs) ==
    IF Len(bs) = 0 THEN 0
    ELSE be_value(SubSeq(bs, 1, Len(bs) - 1)) * 256 + bs[Len(bs)]

RECURSIVE be_bytes(_, _)
be_bytes(x, n) ==
    IF n = 0 THEN << >>
    ELSE Append(be_bytes(x \div 256, n - 1), x % 256)

Fp_to_bytes(x) == be_bytes(x, FP_BYTES)

\* Fp::from_bytes: valid only for a canonical residue (value < p).
Fp_from_bytes(bs) ==
    LET v == be_value(bs)
    IN  [is_some |-> v < P, value |-> IF v < P THEN v ELSE 0]

Fp2_to_bytes(x) == Fp_to_bytes(x.c0) \o Fp_to_bytes(x.c1)

Fp2_from_bytes_unchecked(bs) ==
    LET c0 == Fp_from_bytes(SubSeq(bs, 1, FP_BYTES))
        c1 == Fp_from_bytes(SubSeq(bs, FP_BYTES + 1, FP2_BYTES))
    IN  [is_some |-> c0.is_some /\ c1.is_some,
         value |-> [c0 |-> IF c0.is_some THEN c0.value ELSE 0,
                    c1 |-> IF c1.is_some THEN c1.value ELSE 0]]

\* buf.copy_from_slice(&bytes[lo..hi]) with 0-based, half-open bounds.
slice(bytes, lo, hi) == SubSeq(bytes, lo + 1, hi)

\* from_bytes_unchecked that lets the flag of the last window go.
from_bytes_unchecked_c2_unchecked(bytes) ==
    LET c0 == Fp2_from_bytes_unchecked(slice(bytes, 0, FP2_BYTES))
        c1 == Fp2_from_bytes_unchecked(slice(bytes, FP2_BYTES, 2 * FP2_BYTES))
        c2 == Fp2_from_bytes_unchecked(slice(bytes, 2 * FP2_BYTES, 3 * FP2_BYTES))
    IN  [is_some |-> c0.is_some /\ c1.is_some,
         value |-> [c0 |-> Fp2_unwrap_or_default(c0),
                    c1 |-> Fp2_unwrap_or_default(c1),
                    c2 |-> Fp2_unwrap_or_default(c2)]]

from_bytes_unchecked(bytes) ==
    LET c0 == Fp2_from_bytes_unchecked(slice(bytes, 0, FP2_BYTES))
        c1 == Fp2_from_bytes_unchecked(slice(bytes, FP2_BYTES, 2 * FP2_BYTES))
        c2 == Fp2_from_bytes_unchecked(slice(bytes, 2 * FP2_BYTES, 3 * FP2_BYTES))
    IN  [is_some |-> c0.is_some /\ c1.is_some /\ c2.is_some,
         value |-> [c0 |-> Fp2_unwrap_or_default(c0),
                    c1 |-> Fp2_unwrap_or_default(c1),
                    c2 |-> Fp2_unwrap_or_default(c2)]]

\* to_bytes that writes c2 into the middle window and c1 into the last.
to_bytes_c1_c2_exchanged(x) ==
    Fp2_to_bytes(x.c0) \o Fp2_to_bytes(x.c2) \o Fp2_to_bytes(x.c1)

to_bytes(x) == Fp2_to_bytes(x.c0) \o Fp2_to_bytes(x.c1) \o Fp2_to_bytes(x.c2)

(***************************************************************************)
(* The operations as a state machine.  One operand a is fixed at           *)
(* construction; an operation is applied to it, or to the result of the    *)
(* previous operation.  pow_vartime is a loop and is run one squaring or   *)
(* one table multiplication at a time; sqrt calls it and finishes when it  *)
(* returns.                                                                *)
(***************************************************************************)
VARIABLES
    a,      \* the operand
    b,      \* the right-hand operand of the last multiplication
    op,     \* the operation called last
    pc,     \* "idle", the position inside pow_vartime, or "done"
    self,   \* the receiver of the operation called last
    acc,    \* the value returned (the payload of a CtOption)
    valid,  \* the validity flag returned (TRUE for a plain value)
    bytes,  \* the byte string written by to_bytes or read by from_bytes_unchecked
    n,      \* how many times frobenius_map has been applied in succession
    lut,    \* pow_vartime: the table
    li,     \* pow_vartime: i of the precomputation loop
    by,     \* pow_vartime: the exponent slice
    j,      \* pow_vartime: limbs not yet consumed; the limb at hand is by[j]
    k,      \* pow_vartime: the byte of the limb multiplied in next
    s,      \* pow_vartime: squarings left before the next multiplication
    res,    \* pow_vartime: the accumulator
    first,  \* pow_vartime: the flag of the main loop
    trace   \* pow_vartime: the squarings and multiplications executed so far

io == <<a, b, op, pc, self, acc, valid, bytes, n>>
powv == <<lut, li, by, j, k, s, res, first, trace>>
vars == <<a, b, op, pc, self, acc, valid, bytes, n, lut, li, by, j, k, s, res, first, trace>>

\* Operands.  Sample(i) spreads its coordinates over the field; Trits are
\* the elements with every coordinate 0, 1 or -1 (zero, one, v, v^2, u, ...).
NumSamples == 40

Sample(i) ==
    LET h == i \div P
    IN  [c0 |-> [c0 |-> (7 * i + h + 3) % P, c1 |-> (i * i + 5 * i + 1) % P],
         c1 |-> [c0 |-> (11 * i + 2 * h + 2) % P, c1 |-> (3 * i * i + i + h + 7) % P],
         c2 |-> [c0 |-> (13 * i + 3 * h + 5) % P, c1 |-> (2 * i * i + 9 * i + 4) % P]]

Samples == {Sample(i) : i \in 1 .. NumSamples}

Bit == {0, 1}
Bits == [c0 : [c0 : Bit, c1 : Bit], c1 : [c0 : Bit, c1 : Bit], c2 : [c0 : Bit, c1 : Bit]]

Trit == {0, 1, P - 1}
Trits == [c0 : [c0 : Trit, c1 : Trit], c1 : [c0 : Trit, c1 : Trit], c2 : [c0 : Trit, c1 : Trit]]

v == [c0 |-> Fp2_zero, c1 |-> Fp2_one, c2 |-> Fp2_zero]

\* The operands of the runs that include the loops of pow_vartime, the
\* operands of the runs of the single-step operations, and the right-hand
\* operands of a multiplication.
Operands == {zero, one, neg(one), v, mul(v, v)} \cup Samples
ArithOperands == Trits \cup Samples
Multipliers == Bits \cup Samples

\* Fp2 arguments of the sparse multiplications.
NumFp2Samples == 5

Fp2Operands ==
    {Fp2_zero, Fp2_one, [c0 |-> 1, c1 |-> 1]} \cup {Sample(i).c1 : i \in 1 .. NumFp2Samples}

\* Third operands of an identity over three elements.
NumThirdOperands == 3

ThirdOperands == {zero, one, v} \cup {Sample(i) : i \in 1 .. NumThirdOperands}

\* Exponent slices handed to pow_vartime: the empty slice, the
\* characteristic, and a slice of two limbs.
Exponents == { << >>, <<u64(P)>>, <<u64(5), u64(1)>> }

\* 96-byte windows handed to from_bytes_unchecked: two canonical ones, one
\* whose first field element is the modulus, one whose second is above it.
Windows ==
    { Fp2_to_bytes(Fp2_zero),
      Fp2_to_bytes([c0 |-> P - 1, c1 |-> 1]),
      Fp_to_bytes(0) \o be_bytes(P, FP_BYTES),
      be_bytes(256, FP_BYTES) \o Fp_to_bytes(2) }

ByteStrings == {w0 \o w1 \o w2 : w0 \in Windows, w1 \in Windows, w2 \in Windows}

InitWith(operands) ==
    /\ a \in operands
    /\ b = zero
    /\ op = "new"
    /\ pc = "idle"
    /\ self = a
    /\ acc = a
    /\ valid = TRUE
    /\ bytes = << >>
    /\ n = 0
    /\ lut = [t \in 0 .. 255 |-> zero]
    /\ li = 0
    /\ by = << >>
    /\ j = 0
    /\ k = 0
    /\ s = 0
    /\ res = zero
    /\ first = TRUE
    /\ trace = << >>

Init == InitWith(Operands)

\* a * y
Mul ==
    /\ pc = "idle"
    /\ \E y \in Multipliers :
         /\ b' = y
         /\ acc' = mul(a, y)
    /\ op' = "mul"
    /\ pc' = "done"
    /\ UNCHANGED <<a, self, valid, bytes, n, powv>>

\* a.mul_by_1(c1); b keeps the sparse operand c1 v.
MulBy1 ==
    /\ pc = "idle"
    /\ \E y1 \in Fp2Operands :
         /\ b' = [c0 |-> Fp2_zero, c1 |-> y1, c2 |-> Fp2_zero]
         /\ acc' = mul_by_1(a, y1)
    /\ op' = "mul_by_1"
    /\ pc' = "done"
    /\ UNCHANGED <<a, self, valid, bytes, n, powv>>

\* a.mul_by_01(c0, c1); b keeps the sparse operand c0 + c1 v.
MulBy01 ==
    /\ pc = "idle"
    /\ \E y0 \in Fp2Operands, y1 \in Fp2Operands :
         /\ b' = [c0 |-> y0, c1 |-> y1, c2 |-> Fp2_zero]
         /\ acc' = mul_by_01(a, y0, y1)
    /\ op' = "mul_by_01"
    /\ pc' = "done"
    /\ UNCHANGED <<a, self, valid, bytes, n, powv>>

\* a + y
Add ==
    /\ pc = "idle"
    /\ \E y \in Multipliers :
         /\ b' = y
         /\ acc' = add(a, y)
    /\ op' = "add"
    /\ pc' = "done"
    /\ UNCHANGED <<a, self, valid, bytes, n, powv>>

\* a.mul_by_nonresidue()
MulByNonresidue ==
    /\ pc = "idle"
    /\ acc' = mul_by_nonresidue(a)
    /\ op' = "mul_by_nonresidue"
    /\ pc' = "done"
    /\ UNCHANGED <<a, b, self, valid, bytes, n, powv>>

\* -a
Neg ==
    /\ pc = "idle"
    /\ acc' = neg(a)
    /\ op' = "neg"
    /\ pc' = "done"
    /\ UNCHANGED <<a, b, self, valid, bytes, n, powv>>

\* lexicographically_largest, applied to a or to the negation just computed.
LexicographicallyLargest ==
    /\ \/ pc = "idle"
       \/ pc = "done" /\ op = "neg"
    /\ self' = acc
    /\ valid' = lexicographically_largest(acc)
    /\ op' = "lexicographically_largest"
    /\ pc' = "done"
    /\ UNCHANGED <<a, b, acc, bytes, n, powv>>

\* a.square()
Square ==
    /\ pc = "idle"
    /\ acc' = square(a)
    /\ op' = "square"
    /\ pc' = "done"
    /\ UNCHANGED <<a, b, self, valid, bytes, n, powv>>

\* a.invert()
Invert ==
    /\ pc = "idle"
    /\ LET r == invert(a)
       IN  /\ acc' = r.value
           /\ valid' = r.is_some
    /\ op' = "invert"
    /\ pc' = "done"
    /\ UNCHANGED <<a, b, self, bytes, n, powv>>

\* (a * b).invert(): invert applied to the product just computed.
InvertProduct ==
    /\ pc = "done"
    /\ op = "mul"
    /\ self' = acc
    /\ LET r == invert(acc)
       IN  /\ acc' = r.value
           /\ valid' = r.is_some
    /\ op' = "invert_of_product"
    /\ UNCHANGED <<a, b, pc, bytes, n, powv>>

\* How many times frobenius_map is applied in succession.
MaxFrobenius == 6

\* frobenius_map, applied to a and then to its own result.
Frobenius ==
    /\ \/ pc = "idle"
       \/ pc = "done" /\ op = "frobenius_map" /\ n < MaxFrobenius
    /\ self' = acc
    /\ acc' = frobenius_map(acc)
    /\ n' = n + 1
    /\ op' = "frobenius_map"
    /\ pc' = "done"
    /\ UNCHANGED <<a, b, valid, bytes, powv>>

\* The head of pow_vartime(x, e): the table with lut[0] and lut[1] set,
\* about to enter `for i in 1..128`.
pow_enter(x, e) ==
    /\ self' = x
    /\ by' = e
    /\ lut' = [t \in 0 .. 255 |-> IF t = 0 THEN one ELSE IF t = 1 THEN x ELSE zero]
    /\ li' = 1
    /\ pc' = "lut"
    /\ trace' = << >>
    /\ UNCHANGED <<j, k, s, res, first>>

\* a.pow_vartime(e)
PowCall ==
    /\ pc = "idle"
    /\ \E e \in Exponents : pow_enter(a, e)
    /\ op' = "pow_vartime"
    /\ UNCHANGED <<a, b, acc, valid, bytes, n>>

\* sqrt, applied to a or to the square just computed: up to the call
\* self.pow_vartime(&Q_9_16).
SqrtCall ==
    /\ \/ pc = "idle"
       \/ pc = "done" /\ op = "square"
    /\ pow_enter(acc, Q_9_16)
    /\ op' = "sqrt"
    /\ UNCHANGED <<a, b, acc, valid, bytes, n>>

\* The precomputation with the odd entry left at the square: lut[2i + 1]
\* is not multiplied by the base.
PowLut_odd_entry_not_multiplied ==
    /\ pc = "lut"
    /\ li < 128
    /\ \E sq \in {square(lut[li])} :
         lut' = [lut EXCEPT ![2 * li] = sq, ![2 * li + 1] = sq]
    /\ li' = li + 1
    /\ trace' = trace \o << <<"lut_square", li>>, <<"lut_mul", 2 * li>> >>
    /\ UNCHANGED <<io, by, j, k, s, res, first>>

\* One iteration of `for i in 1..128`.
PowLut ==
    /\ pc = "lut"
    /\ li < 128
    /\ \E sq \in {square(lut[li])} :
         lut' = [lut EXCEPT ![2 * li] = sq, ![2 * li + 1] = mul(sq, self)]
    /\ li' = li + 1
    /\ trace' = trace \o << <<"lut_square", li>>, <<"lut_mul", 2 * li>> >>
    /\ UNCHANGED <<io, by, j, k, s, res, first>>

\* The precomputation is over: res = one, first = true, and the main loop
\* `for j in (0..by.len()).rev()` starts at the last limb of the slice.
PowMain ==
    /\ pc = "lut"
    /\ li = 128
    /\ res' = one
    /\ first' = TRUE
    /\ j' = Len(by)
    /\ pc' = "loop"
    /\ UNCHANGED <<a, b, op, self, acc, valid, bytes, n, lut, li, by, k, s, trace>>

\* The top of one iteration of the main loop: the first limb goes straight
\* to its first multiplication, every other limb squares eight times first.
PowLimb ==
    /\ pc = "loop"
    /\ j > 0
    /\ first' = FALSE
    /\ k' = 7
    /\ s' = IF first THEN 0 ELSE 8
    /\ pc' = IF first THEN "mul" ELSE "sq"
    /\ UNCHANGED <<a, b, op, self, acc, valid, bytes, n, lut, li, by, j, res, trace>>

\* The squarings of the main loop with a shortcut on the value of the
\* accumulator: while res is one, the rest of the run of eight is skipped.
PowSquare_skipping_one ==
    /\ pc = "sq"
    /\ IF res = one
       THEN /\ res' = res
            /\ s' = 0
            /\ pc' = "mul"
            /\ trace' = trace
       ELSE /\ res' = square(res)
            /\ s' = s - 1
            /\ pc' = IF s = 1 THEN "mul" ELSE "sq"
            /\ trace' = Append(trace, <<"square">>)
    /\ UNCHANGED <<a, b, op, self, acc, valid, bytes, n, lut, li, by, j, k, first>>

\* res = res.square(), one of a run of eight.
PowSquare ==
    /\ pc = "sq"
    /\ res' = square(res)
    /\ s' = s - 1
    /\ pc' = IF s = 1 THEN "mul" ELSE "sq"
    /\ trace' = Append(trace, <<"square">>)
    /\ UNCHANGED <<a, b, op, self, acc, valid, bytes, n, lut, li, by, j, k, first>>

\* The multiplication of the main loop with the limbs taken from the front
\* of the slice: by[0] first, by[len - 1] last.
PowMul_limbs_from_front ==
    /\ pc = "mul"
    /\ res' = mul(res, lut[LimbByte(by[Len(by) + 1 - j], k)])
    /\ trace' = Append(trace, <<"mul", LimbByte(by[Len(by) + 1 - j], k)>>)
    /\ IF k > 0
       THEN /\ k' = k - 1
            /\ s' = 8
            /\ pc' = "sq"
            /\ j' = j
       ELSE /\ j' = j - 1
            /\ pc' = "loop"
            /\ UNCHANGED <<k, s>>
    /\ UNCHANGED <<a, b, op, self, acc, valid, bytes, n, lut, li, by, first>>

\* res *= lut[((e >> (k * 8)) & 255) as usize]; after byte 0 the limb is done.
PowMul ==
    /\ pc = "mul"
    /\ res' = mul(res, lut[LimbByte(by[j], k)])
    /\ trace' = Append(trace, <<"mul", LimbByte(by[j], k)>>)
    /\ IF k > 0
       THEN /\ k' = k - 1
            /\ s' = 8
            /\ pc' = "sq"
            /\ j' = j
       ELSE /\ j' = j - 1
            /\ pc' = "loop"
            /\ UNCHANGED <<k, s>>
    /\ UNCHANGED <<a, b, op, self, acc, valid, bytes, n, lut, li, by, first>>

\* pow_vartime returns res to the caller of a.pow_vartime(e).
PowReturn ==
    /\ pc = "loop"
    /\ j = 0
    /\ op = "pow_vartime"
    /\ acc' = res
    /\ pc' = "done"
    /\ UNCHANGED <<a, b, op, self, valid, bytes, n, powv>>

\* pow_vartime returns xp to sqrt, which computes the two candidates and
\* returns the selected one with its flag.
SqrtReturn ==
    /\ pc = "loop"
    /\ j = 0
    /\ op = "sqrt"
    /\ LET r == sqrt_finish(self, res)
       IN  /\ acc' = r.value
           /\ valid' = r.is_some
    /\ pc' = "done"
    /\ UNCHANGED <<a, b, op, self, bytes, n, powv>>

\* a.to_bytes()
ToBytes ==
    /\ pc = "idle"
    /\ bytes' = to_bytes(a)
    /\ op' = "to_bytes"
    /\ pc' = "done"
    /\ UNCHANGED <<a, b, self, acc, valid, n, powv>>

\* Fp6::from_bytes_unchecked, of the bytes just written or of a byte string
\* from outside.
FromBytes ==
    /\ \/ pc = "idle" /\ bytes' \in ByteStrings
       \/ pc = "done" /\ op = "to_bytes" /\ bytes' = bytes
    /\ LET r == from_bytes_unchecked(bytes')
       IN  /\ acc' = r.value
           /\ valid' = r.is_some
    /\ op' = "from_bytes_unchecked"
    /\ pc' = "done"
    /\ UNCHANGED <<a, b, self, n, powv>>

Next ==
    \/ Mul
    \/ MulBy1
    \/ MulBy01
    \/ MulByNonresidue
    \/ Neg
    \/ LexicographicallyLargest
    \/ Add
    \/ Square
    \/ Invert
    \/ InvertProduct
    \/ Frobenius
    \/ PowCall
    \/ SqrtCall
    \/ PowLut
    \/ PowMain
    \/ PowLimb
    \/ PowSquare
    \/ PowMul
    \/ PowReturn
    \/ SqrtReturn
    \/ ToBytes
    \/ FromBytes

Spec == Init /\ [][Next]_vars

\* pow_vartime is straight-line code around two counted loops: once it is
\* entered, every statement of it that can execute does.
PowStep ==
    \/ PowLut
    \/ PowMain
    \/ PowLimb
    \/ PowSquare
    \/ PowMul

\* The bases of the runs of pow_vartime that are followed to their end.
NumPowSamples == 4

PowOperands == {zero, one, v} \cup {Sample(i) : i \in 1 .. NumPowSamples}

PowInit == InitWith(PowOperands)

PowNext ==
    \/ PowCall
    \/ SqrtCall
    \/ PowLut
    \/ PowMain
    \/ PowLimb
    \/ PowSquare
    \/ PowMul
    \/ PowReturn
    \/ SqrtReturn

PowSpec == PowInit /\ [][PowNext]_vars /\ WF_vars(PowStep)

\* The operations without a loop, over the larger set of operands.
ArithInit == InitWith(ArithOperands)

ArithNext ==
    \/ Mul
    \/ MulBy1
    \/ MulBy01
    \/ MulByNonresidue
    \/ Neg
    \/ LexicographicallyLargest
    \/ Square
    \/ Invert
    \/ Frobenius
    \/ ToBytes
    \/ FromBytes

ArithSpec == ArithInit /\ [][ArithNext]_vars

(***************************************************************************)
(* The properties.                                                         *)
(***************************************************************************)
\* u + 1, the element v^3 is reduced to.
XI == [c0 |-> 1, c1 |-> 1]

\* The product of x = x0 + x1 v + x2 v^2 and y = y0 + y1 v + y2 v^2 as a
\* polynomial over Fp2, reduced with v^3 = u + 1.
FieldProduct(x, y) ==
    [c0 |-> Fp2_add(Fp2_mul(x.c0, y.c0),
                    Fp2_mul(XI, Fp2_add(Fp2_mul(x.c1, y.c2), Fp2_mul(x.c2, y.c1)))),
     c1 |-> Fp2_add(Fp2_add(Fp2_mul(x.c0, y.c1), Fp2_mul(x.c1, y.c0)),
                    Fp2_mul(XI, Fp2_mul(x.c2, y.c2))),
     c2 |-> Fp2_add(Fp2_add(Fp2_mul(x.c0, y.c2), Fp2_mul(x.c1, y.c1)),
                    Fp2_mul(x.c2, y.c0))]

\* No coordinate of x over Fp is zero.
Full(x) ==
    /\ x.c0.c0 # 0 /\ x.c0.c1 # 0
    /\ x.c1.c0 # 0 /\ x.c1.c1 # 0
    /\ x.c2.c0 # 0 /\ x.c2.c1 # 0

Returned(o) == pc = "done" /\ op = o

\* C1: a * b is the field product of a and b -- c0 = a0 b0 + (u+1)(a1 b2 +
\* a2 b1), c1 = a0 b1 + a1 b0 + (u+1) a2 b2, c2 = a0 b2 + a1 b1 + a2 b0 --
\* and the multiplication returns a field element for every pair of operands.
C1_MulIsFieldProduct ==
    Returned("mul") => acc = FieldProduct(a, b) /\ acc \in Fp6

\* C1 happens: two operands without a zero coordinate have been multiplied.
C1_Witness ==
    Returned("mul") /\ Full(a) /\ Full(b) /\ a # b /\ Full(acc)

\* C2: square(a) is a * a, component by component.
C2_SquareIsSelfProduct ==
    Returned("square") => acc = mul(a, a)

\* C2 happens: an operand without a zero coordinate has been squared.
C2_Witness ==
    Returned("square") /\ Full(a) /\ Full(acc)

\* C3: for a nonzero a, invert(a) is valid and invert(a) * a is one.
C3_InverseTimesSelfIsOne ==
    (Returned("invert") /\ a # zero) => valid /\ mul(acc, a) = one

\* C3 happens: an operand without a zero coordinate has been inverted.
C3_Witness ==
    Returned("invert") /\ Full(a) /\ valid /\ Full(acc)

\* C4: invert(a) is invalid exactly when a is zero, and it returns (a flag
\* and a field element) for every operand.
C4_InvertInvalidOnlyForZero ==
    Returned("invert") => (valid <=> a # zero) /\ acc \in Fp6

\* C4 happens: zero has been inverted, and the result is flagged invalid.
C4_Witness ==
    Returned("invert") /\ a = zero /\ ~valid


\* C5: when sqrt returns a valid result, the square of that result is the
\* element sqrt was applied to.
C5_SqrtResultSquaresBack ==
    (Returned("sqrt") /\ valid) => square(acc) = self

\* C5 happens: sqrt, applied to an operand as it is, has found a root.
C5_Witness ==
    Returned("sqrt") /\ valid /\ self = a /\ Full(a) /\ Full(acc)

\* The norm of x down to Fp2: x0^3 + (u+1) x1^3 + (u+1)^2 x2^3 - 3 (u+1) x0 x1 x2.
NormToFp2(x) ==
    LET cube(t) == Fp2_mul(t, Fp2_mul(t, t))
        three == [c0 |-> 3, c1 |-> 0]
    IN  Fp2_sub(
          Fp2_add(Fp2_add(cube(x.c0), Fp2_mul(XI, cube(x.c1))),
                  Fp2_mul(Fp2_mul(XI, XI), cube(x.c2))),
          Fp2_mul(three, Fp2_mul(XI, Fp2_mul(x.c0, Fp2_mul(x.c1, x.c2)))))

\* The norm of t down to Fp.
NormToFp(t) == Fp_add(Fp_mul(t.c0, t.c0), Fp_mul(t.c1, t.c1))

\* x is r * r for some r of the field: x is zero, or its norm down to Fp is
\* a quadratic residue (the norm maps a generator of the cyclic group of
\* units onto a generator, so it keeps the parity of the exponent).
IsSquare(x) ==
    x = zero \/ Fp_pow(NormToFp(NormToFp2(x)), (P - 1) \div 2) = 1

\* C6: sqrt returns a valid result exactly for the squares of the field;
\* applied to r * r it returns r or -r, and applied to zero it returns zero.
C6_SqrtValidIffSquare ==
    Returned("sqrt") =>
        /\ valid <=> IsSquare(self)
        /\ self = mul(a, a) => valid /\ (acc = a \/ acc = neg(a))
        /\ self = zero => valid /\ acc = zero

\* C6 happens: sqrt has been applied to the square of an operand.
C6_Witness ==
    Returned("sqrt") /\ Full(a) /\ a # one /\ self = mul(a, a) /\ self # a /\ valid

\* The i-th window of the byte string, i = 1, 2, 3.
Window(i) == SubSeq(bytes, (i - 1) * FP2_BYTES + 1, i * FP2_BYTES)

\* C7: to_bytes writes c0, c1 and c2 into the first, the middle and the last
\* third of the byte string, and from_bytes_unchecked of those bytes is valid
\* and returns the element again.
C7_BytesRoundTrip ==
    /\ Returned("to_bytes") =>
           /\ Len(bytes) = FP6_BYTES
           /\ Window(1) = Fp2_to_bytes(a.c0)
           /\ Window(2) = Fp2_to_bytes(a.c1)
           /\ Window(3) = Fp2_to_bytes(a.c2)
    /\ (Returned("from_bytes_unchecked") /\ bytes = to_bytes(a)) =>
           valid /\ acc = a

\* C7 happens: an element has been written and read back.
C7_Witness ==
    /\ Returned("from_bytes_unchecked")
    /\ bytes = to_bytes(a)
    /\ Full(a) /\ a.c0 # a.c1 /\ a.c1 # a.c2
    /\ valid

\* C8: from_bytes_unchecked is invalid exactly when one of the three windows
\* fails Fp2::from_bytes_unchecked, and a valid result has the three decoded
\* windows as its components.
C8_DecodeInvalidIffWindowFails ==
    Returned("from_bytes_unchecked") =>
        LET w0 == Fp2_from_bytes_unchecked(Window(1))
            w1 == Fp2_from_bytes_unchecked(Window(2))
            w2 == Fp2_from_bytes_unchecked(Window(3))
        IN  /\ ~valid <=> (~w0.is_some \/ ~w1.is_some \/ ~w2.is_some)
            /\ valid => acc = [c0 |-> w0.value, c1 |-> w1.value, c2 |-> w2.value]

\* C8 happens: a byte string whose last window alone is not canonical has
\* been decoded.
C8_Witness ==
    /\ Returned("from_bytes_unchecked")
    /\ Fp2_from_bytes_unchecked(Window(1)).is_some
    /\ Fp2_from_bytes_unchecked(Window(2)).is_some
    /\ ~Fp2_from_bytes_unchecked(Window(3)).is_some
    /\ Window(1) # Window(2)
    /\ ~valid

\* C9: six applications of frobenius_map in succession return the element
\* they started from.
C9_FrobeniusSixTimesIsIdentity ==
    (Returned("frobenius_map") /\ n = 6) => acc = a

\* C9 happens: frobenius_map has been applied six times to an element it
\* does not fix.
C9_Witness ==
    Returned("frobenius_map") /\ n = 6 /\ Full(a) /\ frobenius_map(a) # a

RECURSIVE Fp2Power(_, _)
Fp2Power(x, e) ==
    IF e = 0 THEN Fp2_one
    ELSE LET h == Fp2Power(x, e \div 2)
             hh == Fp2_mul(h, h)
         IN  IF e % 2 = 1 THEN Fp2_mul(hh, x) ELSE hh

\* x^e by square and multiply over the field product, as the one element
\* of a set: each intermediate power is a value before the next is taken.
RECURSIVE PowerSet(_, _)
PowerSet(x, e) ==
    IF e = 0 THEN {one}
    ELSE {IF e % 2 = 1 THEN FieldProduct(hh, x) ELSE hh :
            hh \in {FieldProduct(h, h) : h \in PowerSet(x, e \div 2)}}

Power(x, e) == CHOOSE r \in PowerSet(x, e) : TRUE

\* C10: frobenius_map(a) is a^p, the value pow_vartime(a, p) returns, and
\* the two constants are (u+1)^((p-1)/3) and (u+1)^((2p-2)/3).
C10_FrobeniusIsPowerP ==
    /\ FROBENIUS_COEFF_C1 = Fp2Power(XI, (P - 1) \div 3)
    /\ FROBENIUS_COEFF_C2 = Fp2Power(XI, (2 * P - 2) \div 3)
    /\ (Returned("pow_vartime") /\ by = <<u64(P)>>) => acc = frobenius_map(a)
    /\ (Returned("frobenius_map") /\ n = 1) => acc = Power(a, P)

\* C10 happens: pow_vartime has raised to the power p an element that the
\* Frobenius map moves.
C10_Witness ==
    Returned("pow_vartime") /\ by = <<u64(P)>> /\ Full(a) /\ acc # a


\* The sequence q in reverse order.
Reversed(q) == [i \in 1 .. Len(q) |-> q[Len(q) + 1 - i]]

\* The bytes of the integer whose 64-bit limbs are `limbs`, the most
\* significant limb first; the bytes come out most significant first.
RECURSIVE ExponentBytes(_)
ExponentBytes(limbs) ==
    IF limbs = << >> THEN << >>
    ELSE Reversed(Head(limbs)) \o ExponentBytes(Tail(limbs))

\* x^e for the integer e whose bytes, most significant first, are bs:
\* x^(256 e' + d) = (x^e')^256 * x^d, over the field product.
RECURSIVE PowerOfBytesSet(_, _)
PowerOfBytesSet(x, bs) ==
    IF bs = << >> THEN {one}
    ELSE {FieldProduct(Power(h, 256), Power(x, bs[Len(bs)])) :
            h \in PowerOfBytesSet(x, SubSeq(bs, 1, Len(bs) - 1))}

PowerOfBytes(x, bs) == CHOOSE r \in PowerOfBytesSet(x, bs) : TRUE

\* C11, as stated: pow_vartime(a, by) is a^e for the integer e whose limbs
\* are by, read with by[0] the most significant limb and by[len - 1] the
\* least significant.
C11_PowBigEndianLimbs ==
    Returned("pow_vartime") => acc = PowerOfBytes(a, ExponentBytes(by))

\* C11, amended: pow_vartime(a, by) is a^e for the integer e whose limbs
\* are by, read with by[len - 1] the most significant limb and by[0] the
\* least significant (the empty slice is e = 0 and gives one).
C11_PowLittleEndianLimbs ==
    Returned("pow_vartime") => acc = PowerOfBytes(a, ExponentBytes(Reversed(by)))

\* C11 happens: pow_vartime has returned for a slice of two limbs, on which
\* the two readings of the limb order give different powers.
C11_Witness ==
    /\ Returned("pow_vartime")
    /\ Len(by) = 2
    /\ Full(a)
    /\ PowerOfBytes(a, ExponentBytes(by)) # PowerOfBytes(a, ExponentBytes(Reversed(by)))


\* C12: mul_by_01(a, c0, c1) is the general product of a and c0 + c1 v, and
\* mul_by_1(a, c1) is the general product of a and c1 v, component by
\* component.
C12_SparseMulIsGeneralMul ==
    /\ Returned("mul_by_01") => b.c2 = Fp2_zero /\ acc = mul(a, b)
    /\ Returned("mul_by_1") => b.c0 = Fp2_zero /\ b.c2 = Fp2_zero /\ acc = mul(a, b)

\* C12 happens: an operand without a zero coordinate has been multiplied by
\* a sparse operand with two different nonzero components.
C12_Witness ==
    /\ Returned("mul_by_01")
    /\ Full(a)
    /\ b.c0.c0 # 0 /\ b.c0.c1 # 0 /\ b.c1.c0 # 0 /\ b.c1.c1 # 0
    /\ b.c0 # b.c1
    /\ Full(acc)


\* C13: for all a, b, c, (a + b) * square(c) is (c * c * a) + (c * c * b):
\* multiplication distributes over the componentwise addition.
C13_MulDistributesOverAdd ==
    Returned("add") =>
        \A z \in ThirdOperands :
            mul(acc, square(z)) = add(mul(mul(z, z), a), mul(mul(z, z), b))

\* C13 happens: two different operands without a zero coordinate have been
\* added, and the sum has no zero coordinate either.
C13_Witness ==
    Returned("add") /\ Full(a) /\ Full(b) /\ a # b /\ Full(acc)


\* C14: for nonzero a and b, invert(a), invert(b) and invert(a * b) are all
\* valid, and invert(a) * invert(b) is invert(a * b).
C14_InvertIsMultiplicative ==
    (Returned("invert_of_product") /\ a # zero /\ b # zero) =>
        /\ self = mul(a, b)
        /\ valid
        /\ invert(a).is_some
        /\ invert(b).is_some
        /\ mul(invert(a).value, invert(b).value) = acc

\* C14 happens: the product of two different operands without a zero
\* coordinate has been inverted.
C14_Witness ==
    /\ Returned("invert_of_product")
    /\ Full(a) /\ Full(b) /\ a # b
    /\ valid
    /\ Full(acc)


\* C15: mul_by_nonresidue(a) is (c2.mul_by_nonresidue(), c0, c1), and that
\* is the general product of a and v = (zero, one, zero).
C15_MulByNonresidueIsMulByV ==
    Returned("mul_by_nonresidue") =>
        /\ acc.c0 = Fp2_mul_by_nonresidue(a.c2)
        /\ acc.c0 = Fp2_mul(XI, a.c2)
        /\ acc.c1 = a.c0
        /\ acc.c2 = a.c1
        /\ acc = mul(a, [c0 |-> Fp2_zero, c1 |-> Fp2_one, c2 |-> Fp2_zero])

\* C15 happens: an operand with three different components and no zero
\* coordinate has been multiplied by the nonresidue.
C15_Witness ==
    /\ Returned("mul_by_nonresidue")
    /\ Full(a) /\ a.c0 # a.c1 /\ a.c1 # a.c2 /\ a.c0 # a.c2
    /\ acc.c0 # a.c2


\* C16: lexicographically_largest(a) is the Fp2 predicate on the first
\* nonzero component in the order c2, c1, c0, and is false for zero; so for a
\* nonzero a exactly one of a and -a is reported as the largest.
C16_LexLargestByFirstNonzero ==
    Returned("lexicographically_largest") =>
        /\ valid =
               IF self.c2 # Fp2_zero THEN Fp2_lexicographically_largest(self.c2)
               ELSE IF self.c1 # Fp2_zero THEN Fp2_lexicographically_largest(self.c1)
               ELSE Fp2_lexicographically_largest(self.c0)
        /\ self = zero => ~valid
        /\ (self # zero /\ self = a) => valid # lexicographically_largest(neg(a))
        /\ (self # zero /\ self = neg(a)) => valid # lexicographically_largest(a)

\* C16 happens: the predicate has been applied to the negation of an element
\* whose c2 is zero and whose c1 is not, and reports the negation as the
\* largest of the two.
C16_Witness ==
    /\ Returned("lexicographically_largest")
    /\ self = neg(a)
    /\ a.c2 = Fp2_zero /\ a.c1 # Fp2_zero /\ a.c0 # Fp2_zero
    /\ Fp2_lexicographically_largest(a.c0)
    /\ valid


\* The steps of the precomputation: for i = 1 .. 127, the squaring of
\* lut[i] and the multiplication of lut[2i] by the base.
LutSteps ==
    [t \in 1 .. 254 |->
        IF t % 2 = 1 THEN <<"lut_square", (t + 1) \div 2>> ELSE <<"lut_mul", t>>]

\* The steps of the main loop for the exponent slice e: one multiplication
\* per byte, the most significant byte of the last limb first, and eight
\* squarings between two multiplications.
MainSteps(e) ==
    LET bs == ExponentBytes(Reversed(e))
    IN  [t \in 1 .. (IF bs = << >> THEN 0 ELSE 9 * Len(bs) - 8) |->
            IF (t - 1) % 9 = 0 THEN <<"mul", bs[(t - 1) \div 9 + 1]>> ELSE <<"square">>]

StepSequence(e) == LutSteps \o MainSteps(e)

\* The number of steps for a slice of len limbs.
StepCount(len) == 254 + (IF len = 0 THEN 0 ELSE 72 * len - 8)

\* The steps executed are those the exponent slice alone prescribes.
StepsFollowExponent ==
    /\ op \in {"pow_vartime", "sqrt"} =>
           /\ Len(trace) <= StepCount(Len(by))
           /\ trace = SubSeq(StepSequence(by), 1, Len(trace))
    /\ (pc = "loop" /\ j = 0) \/ Returned("pow_vartime") \/ Returned("sqrt") =>
           /\ trace = StepSequence(by)
           /\ Len(trace) = StepCount(Len(by))

\* C17: the squarings and table multiplications pow_vartime executes, their
\* order and the table indices are a function of the exponent slice alone,
\* the same for every base; their number is fixed by the length of the
\* slice; and every run of pow_vartime comes to the end of its main loop.
C17_StepsIndependentOfBase ==
    /\ []StepsFollowExponent
    /\ (pc = "lut") ~> (pc = "loop" /\ j = 0)

\* C17 happens: pow_vartime has run to its end on a slice of two limbs, for
\* a base that is neither zero nor one.
C17_Witness ==
    /\ Returned("pow_vartime")
    /\ Len(by) = 2
    /\ Full(a)
    /\ Len(trace) = StepCount(2)


\* C18: when the precomputation loop of pow_vartime finishes, lut[i] is
\* self^i for every i in 0 .. 255 -- lut[0] is one, lut[1] is self, an even
\* entry 2i is the square of entry i and an odd entry 2i + 1 is entry 2i
\* times self -- so every entry has been assigned, none is zero unless the
\* base is, and the entry the main loop reads is the power it stands for.
C18_LutHoldsPowers ==
    /\ (pc = "lut" /\ li = 128) =>
           /\ \A i \in 0 .. 255 : lut[i] = Power(self, i)
           /\ lut[0] = one
           /\ lut[1] = self
           /\ \A i \in 1 .. 127 :
                  /\ lut[2 * i] = square(lut[i])
                  /\ lut[2 * i + 1] = mul(lut[2 * i], self)
           /\ \A i \in 1 .. 127 :
                  /\ \E t \in 1 .. Len(trace) : trace[t] = <<"lut_square", i>>
                  /\ \E t \in 1 .. Len(trace) : trace[t] = <<"lut_mul", 2 * i>>
           /\ self # zero => \A i \in 0 .. 255 : lut[i] # zero
    /\ pc = "mul" =>
           lut[LimbByte(by[j], k)] = Power(self, LimbByte(by[j], k))

\* C18 happens: the precomputation has finished for a base without a zero
\* coordinate, and the last two entries of the table differ.
C18_Witness ==
    /\ pc = "lut"
    /\ li = 128
    /\ Full(self)
    /\ lut[255] # zero
    /\ lut[255] # lut[254]

====
